---- MODULE Spec2Model ----
(***************************************************************************)
(* Model of gen-story: the batch driver of src/cmd/gen_story.py (main,     *)
(* load_video_ids_from_csv, generate_messages_sequentially,                *)
(* save_results_to_json) and the Gemini adapter of src/llm/gemini.py       *)
(* (GeminiTsumGenerator.generate, batch_generate).                         *)
(*                                                                         *)
(* Python values.  A value of type "str | None" that comes from the CSV is *)
(* a sequence: <<>> is None and <<s>> is the string s.  A dict with a      *)
(* fixed key set is a record, a dict whose key set varies is a function    *)
(* from key strings.  An object whose class is tested at run time carries  *)
(* its class in the field "type".                                          *)
(***************************************************************************)
EXTENDS Integers, Sequences, FiniteSets, TLC

VARIABLES
    entry,         \* which function of the repository this run calls
    pc,            \* position of the thread of control
    csv,           \* the input file: [fieldnames, rows]
    apiKey,        \* env.GEMINI_API_KEY
    parentExists,  \* file system: does output_json.parent exist
    file,          \* file system: content of output_json, <<>> when absent
    fileWrites,    \* number of times output_json was opened for writing
    video_data,    \* main: the loaded video records
    i,             \* generate_messages_sequentially: loop index (from 1)
    messages,      \* generate_messages_sequentially: the list being built
    inflight,      \* generation calls issued to the backend, not yet completed
    calls,         \* calls[k]: generate invocations made for record k
    replies,       \* replies[k]: what the backend answered to the call k
    completions,   \* the calls in the order in which they completed
    pauses,        \* the records after which time.sleep was called, in order
    results,       \* main: the combined result list / argument of save
    prompt_list,   \* batch_generate: its argument
    tasks,         \* batch_generate: state of each gathered task
    gathered,      \* batch_generate: gather's result slots, exception and state
    loop,          \* batch_generate: the event loop's callback queue
    outcome        \* what the entry function returned or raised, <<>> before

vars == <<entry, pc, csv, apiKey, parentExists, file, fileWrites, video_data,
          i, messages, inflight, calls, replies, completions, pauses, results,
          prompt_list, tasks, gathered, loop, outcome>>

----------------------------------------------------------------------------
(* Bounds of the model. *)

MaxRows == 2
MaxPrompts == 2

----------------------------------------------------------------------------
(* Python helpers. *)

None == <<>>
Str(s) == <<s>>

\* bool(v) for v a str or None: None and "" are falsy.
Truthy(v) == v # None /\ v[1] # ""

\* dict.get(key, default)
Get(d, key, default) == IF key \in DOMAIN d THEN d[key] ELSE default

\* isinstance(e, cls) for an exception object
IsInstance(e, cls) == cls \in e.mro

\* {}: the dict without keys
EmptyDict == [k \in {} |-> k]

Return(v) == [kind |-> "return", value |-> v]
Raise(e) == [kind |-> "raise", exc |-> e]

RECURSIVE SeqSum(_)
SeqSum(s) == IF s = <<>> THEN 0 ELSE Head(s) + SeqSum(Tail(s))

----------------------------------------------------------------------------
(* Exceptions that reach the code. *)

ValueErrorNoResponse ==
    [cls |-> "ValueError", mro |-> {"ValueError", "Exception", "BaseException"},
     msg |-> "No response from Gemini API."]
ValueErrorNoApiKey ==
    [cls |-> "ValueError", mro |-> {"ValueError", "Exception", "BaseException"},
     msg |-> "API key for Gemini is not set. Please set the 'GEMINI_API_KEY' environment variable."]
ValidationError ==
    [cls |-> "ValidationError",
     mro |-> {"ValidationError", "ValueError", "Exception", "BaseException"},
     msg |-> "validation error for StoryOutput"]
TimeoutError ==
    [cls |-> "TimeoutError", mro |-> {"TimeoutError", "Exception", "BaseException"},
     msg |-> ""]
CancelledError ==
    [cls |-> "CancelledError", mro |-> {"CancelledError", "BaseException"},
     msg |-> ""]
FileNotFoundError ==
    [cls |-> "FileNotFoundError",
     mro |-> {"FileNotFoundError", "OSError", "Exception", "BaseException"},
     msg |-> "No such file or directory"]

----------------------------------------------------------------------------
(* JSON values and the reply texts of the backend.  A reply text either    *)
(* does not parse as JSON or parses to a JSON value.                       *)

JNull == [t |-> "null"]
JNum(n) == [t |-> "num", number |-> n]
JStr(s) == [t |-> "str", string |-> s]
JArr(s) == [t |-> "arr", items |-> s]
JObj(f) == [t |-> "obj", members |-> f]

Unparsable(src) == [parses |-> FALSE, src |-> src]
JsonText(j) == [parses |-> TRUE, json |-> j]

StoryT1 == JObj("title" :> JStr("T1") @@ "message" :> JStr("M1"))
StoryT2 == JObj("title" :> JStr("T2") @@ "message" :> JStr("M2"))
StoryNoMessage == JObj("title" :> JStr("T3"))
StoryNumTitle == JObj("title" :> JNum(7) @@ "message" :> JStr("M4"))
StoryExtraKey ==
    JObj("title" :> JStr("T6") @@ "message" :> JStr("M6") @@ "score" :> JNum(1))

TextOneStory == JsonText(JObj("stories" :> JArr(<<StoryT1>>)))
TextNoStories == JsonText(JObj("stories" :> JArr(<<>>)))
TextTwoStories == JsonText(JObj("stories" :> JArr(<<StoryT1, StoryT2>>)))
TextExtraKeys ==
    JsonText(JObj("stories" :> JArr(<<StoryExtraKey>>) @@ "model" :> JStr("g")))
TextPartlyValid == JsonText(JObj("stories" :> JArr(<<StoryT1, StoryNoMessage>>)))
TextEmpty == Unparsable("")
TextProse == Unparsable("I cannot watch this video.")

ReplyTexts ==
    { TextEmpty, TextProse,
      JsonText(JObj(EmptyDict)),
      JsonText(JObj("stories" :> JNull)),
      TextNoStories, TextOneStory, TextTwoStories,
      TextExtraKeys, TextPartlyValid,
      JsonText(JObj("stories" :> JArr(<<StoryNumTitle, StoryT2>>))) }

(* What client.aio.models.generate_content does: it raises, returns None,  *)
(* or returns a response whose text is None or a string.                   *)
CallRaises(e) == [kind |-> "raise", exc |-> e]
NoResponse == [kind |-> "none"]
Response(text) == [kind |-> "response", text |-> text]

BackendResponses ==
    { CallRaises(TimeoutError), CallRaises(CancelledError), NoResponse,
      Response(None) }
    \cup { Response(<<t>>) : t \in ReplyTexts }

----------------------------------------------------------------------------
(* src/llm/schema/output.py: pydantic validation of Story and StoryOutput. *)

\* A field declared "name: str" validates when present and a JSON string.
StrFieldOk(j, name) ==
    /\ name \in DOMAIN j.members
    /\ j.members[name].t = "str"

StoryValid(j) ==
    /\ j.t = "obj"
    /\ StrFieldOk(j, "title")
    /\ StrFieldOk(j, "message")

Story(j) ==
    [title |-> j.members["title"].string, message |-> j.members["message"].string]

StoryOutputValid(j) ==
    /\ j.t = "obj"
    /\ "stories" \in DOMAIN j.members
    /\ j.members["stories"].t = "arr"
    /\ \A k \in 1..Len(j.members["stories"].items) :
           StoryValid(j.members["stories"].items[k])

StoryOutput(j) ==
    [type |-> "StoryOutput",
     stories |-> [k \in 1..Len(j.members["stories"].items) |->
                     Story(j.members["stories"].items[k])]]

\* A validation that drops the malformed stories and keeps the rest.
ModelValidateJsonPartial(text) ==
    IF /\ text.parses
       /\ text.json.t = "obj"
       /\ "stories" \in DOMAIN text.json.members
       /\ text.json.members["stories"].t = "arr"
    THEN Return([type |-> "StoryOutput",
                 stories |->
                    LET kept == SelectSeq(text.json.members["stories"].items,
                                          StoryValid)
                    IN [k \in 1..Len(kept) |-> Story(kept[k])]])
    ELSE Raise(ValidationError)

\* StoryOutput.model_validate_json(text)
ModelValidateJson(text) ==
    IF text.parses /\ StoryOutputValid(text.json)
    THEN Return(StoryOutput(text.json))
    ELSE Raise(ValidationError)

----------------------------------------------------------------------------
(* src/llm/base.py, src/llm/schema/gemini.py, src/llm/gemini.py            *)

Prompt(video_url, text) == [video_url |-> video_url, text |-> text]

GeminiYoutubePrompt(video_url) == [file_data |-> [file_uri |-> video_url]]
GeminiTextPrompt(message) == [text |-> message]

\* generate, lines 26-31 with GeminiPrompt.to_parts: two parts per prompt,
\* the media reference first.
ToParts(prompts) ==
    [k \in 1..(2 * Len(prompts)) |->
        IF k % 2 = 1
        THEN GeminiYoutubePrompt(prompts[(k + 1) \div 2].video_url)
        ELSE GeminiTextPrompt(prompts[k \div 2].text)]

\* generate, lines 33-45: the outcome of generate given what the backend did.
Generate(response) ==
    IF response.kind = "raise" THEN Raise(response.exc)
    ELSE IF response.kind = "none" THEN Raise(ValueErrorNoResponse)
    ELSE IF response.text = None THEN Raise(ValueErrorNoResponse)
    ELSE ModelValidateJson(response.text[1])

----------------------------------------------------------------------------
(* The input file: the header line and the cells of each following line.   *)

FullHeader == <<"video_id", "title", "channel", "parent_category", "fine_category">>

VideoIds == {"abc123", "def456"}

\* The files read: a header and the lines that may follow it.  Lines may be
\* shorter than the header, blank, or have an empty video_id.
CsvShapes ==
    { [fieldnames |-> FullHeader,
       lines |-> { <<"abc123", "Cat Video", "Ch", "Travel", "Hike">>,
                   <<"def456", "", "", "", "">>,
                   <<"def456">>,
                   <<"abc123", "Cat Video", "", "Travel">>,
                   <<"", "Skipped", "", "", "">>,
                   <<>> }],
      [fieldnames |-> <<"video_id", "title">>,
       lines |-> { <<"abc123", "Cat Video">>, <<"def456">>, <<"def456", "">>,
                   <<"", "Skipped">> }],
      [fieldnames |-> <<"video_id">>,
       lines |-> { <<"abc123">>, <<"def456">>, <<"">> }],
      [fieldnames |-> <<"title", "video_id">>,
       lines |-> { <<"Cat Video", "abc123">>, <<"Cat Video">>, <<"", "def456">> }],
      [fieldnames |-> <<"title">>,
       lines |-> { <<"Cat Video">> }] }

SeqsUpTo(S, n) == UNION { [1..m -> S] : m \in 0..n }

CsvFiles ==
    UNION { { [fieldnames |-> sh.fieldnames, rows |-> r] :
                r \in SeqsUpTo(sh.lines, MaxRows) } : sh \in CsvShapes }

\* csv.DictReader: the dict of one line.  The cells are paired with the
\* field names in order; a field the line is too short for maps to None.
DictRow(fieldnames, cells) ==
    [c \in { fieldnames[n] : n \in 1..Len(fieldnames) } |->
        LET n == CHOOSE m \in 1..Len(fieldnames) : fieldnames[m] = c
        IN IF n <= Len(cells) THEN Str(cells[n]) ELSE None]

\* csv.DictReader: one dict per line, blank lines skipped.
RECURSIVE DictReader(_, _)
DictReader(fieldnames, rows) ==
    IF rows = <<>> THEN <<>>
    ELSE IF Head(rows) = <<>>
         THEN DictReader(fieldnames, Tail(rows))
         ELSE <<DictRow(fieldnames, Head(rows))>>
              \o DictReader(fieldnames, Tail(rows))

----------------------------------------------------------------------------
(* src/cmd/gen_story.py *)

YOUTUBE_BASE_URL == "https://www.youtube.com/watch?v="

\* Stands for the fixed instruction text of lines 18-28.
MESSAGE_PROMPT == "MESSAGE_PROMPT"

\* load_video_ids_from_csv, lines 52-60: the dict built from one row.
VideoDict(row) ==
    [video_id |-> row["video_id"],
     title |-> Get(row, "title", Str("")),
     channel |-> Get(row, "channel", Str("")),
     parent_category |-> Get(row, "parent_category", Str("")),
     fine_category |-> Get(row, "fine_category", Str(""))]

\* load_video_ids_from_csv, lines 45-61.
RECURSIVE LoadRows(_)
LoadRows(rows) ==
    IF rows = <<>> THEN <<>>
    ELSE IF ~Truthy(Get(Head(rows), "video_id", None))
         THEN LoadRows(Tail(rows))
         ELSE <<VideoDict(Head(rows))>> \o LoadRows(Tail(rows))

LoadVideoIdsFromCsv(c) == LoadRows(DictReader(c.fieldnames, c.rows))

\* generate_messages_sequentially, lines 98-111: the prompts of one video.
Prompts(video) ==
    << Prompt(YOUTUBE_BASE_URL \o video.video_id[1], MESSAGE_PROMPT) >>

\* line 117: the handler "except Exception" takes e.
Caught(e) == IsInstance(e, "Exception")

\* An error text without the "ERROR: " prefix.
ErrorMsgBare(e) == [type |-> "str", value |-> e.msg]

\* line 118: error_msg = f"ERROR: {str(e)}"
ErrorMsg(e) == [type |-> "str", value |-> "ERROR: " \o e.msg]

\* A sleep after every record, the last included.
PauseAlways(idx, total) == idx <= total

\* line 123: is there a sleep after record idx of total
PauseAfter(idx, total) == idx < total

\* main, lines 161-167.
StoriesData(message) ==
    IF message.type = "StoryOutput"
    THEN [k \in 1..Len(message.stories) |->
            [title |-> message.stories[k].title,
             message |-> message.stories[k].message]]
    ELSE << [title |-> "Error", message |-> message.value] >>

\* The key is copied whatever its value.
OptionalFieldAlways(video, key) == key :> video[key]

\* main, lines 172-179: one optional key of the result dict.
OptionalField(video, key) ==
    IF Truthy(video[key]) THEN key :> video[key] ELSE EmptyDict

\* main, lines 169-179.
ResultDict(video, message) ==
    "video_id" :> video.video_id @@ "stories" :> StoriesData(message)
    @@ OptionalField(video, "title") @@ OptionalField(video, "channel")
    @@ OptionalField(video, "parent_category")
    @@ OptionalField(video, "fine_category")

Min(a, b) == IF a < b THEN a ELSE b

\* main, lines 159-181: zip stops at the shorter list.
Combine(videos, msgs) ==
    [k \in 1..Min(Len(videos), Len(msgs)) |-> ResultDict(videos[k], msgs[k])]

\* main without line 140.
MkdirSkipped(exists) == exists

\* main, line 140: output_json.parent.mkdir(parents=True, exist_ok=True)
MkdirParents(exists) == TRUE

\* Results collected in completion order: the value goes to the first free slot.
GatherStoreNextFree(slots, k, value) ==
    [slots EXCEPT ![CHOOSE j \in 1..Len(slots) :
                       /\ slots[j] = None
                       /\ \A m \in 1..(j - 1) : slots[m] # None] = <<value>>]

\* asyncio.gather: the result of the k-th awaitable goes to slot k.
GatherStore(slots, k, value) == [slots EXCEPT ![k] = <<value>>]

----------------------------------------------------------------------------
(* Initial states: one per entry point and input. *)

NoCsv == [fieldnames |-> <<>>, rows |-> <<>>]

\* Lists of prompts given to generate, and lists of those given to
\* batch_generate: one list per length, the videos alternating.
PromptLists ==
    SeqsUpTo({ Prompts([video_id |-> Str(id)])[1] : id \in VideoIds },
             MaxPrompts)

BatchPromptLists ==
    { [k \in 1..n |->
          Prompts([video_id |-> Str(IF k % 2 = 1 THEN "abc123" ELSE "def456")])] :
        n \in 0..MaxPrompts }

\* Result lists given to save_results_to_json when it is called directly.
SaveArgs ==
    { Combine(LoadVideoIdsFromCsv(c),
              [k \in 1..Len(LoadVideoIdsFromCsv(c)) |-> ErrorMsg(TimeoutError)]) :
        c \in { f \in CsvFiles : f.fieldnames = FullHeader /\ Len(f.rows) <= 1 } }

\* No event loop is running.
NoLoop == [ready |-> <<>>, ntodo |-> 0, stopping |-> FALSE, main |-> None]

Idle ==
    /\ file = None
    /\ fileWrites = 0
    /\ video_data = <<>>
    /\ i = 1
    /\ messages = <<>>
    /\ inflight = {}
    /\ calls = <<>>
    /\ replies = <<>>
    /\ completions = <<>>
    /\ pauses = <<>>
    /\ tasks = <<>>
    /\ gathered = [slots |-> <<>>, exc |-> None, outer |-> "pending"]
    /\ loop = NoLoop
    /\ outcome = None

InitMain ==
    /\ entry = "main"
    /\ pc = "mkdir"
    /\ csv \in CsvFiles
    /\ apiKey \in {None, Str("key")}
    /\ parentExists \in BOOLEAN
    /\ results = <<>>
    /\ prompt_list = <<>>

InitGenerate ==
    /\ entry = "generate"
    /\ pc = "generate"
    /\ csv = NoCsv
    /\ apiKey = Str("key")
    /\ parentExists = TRUE
    /\ results = <<>>
    /\ prompt_list \in { <<ps>> : ps \in PromptLists }

InitBatch ==
    /\ entry = "batch_generate"
    /\ pc = "batch"
    /\ csv = NoCsv
    /\ apiKey = Str("key")
    /\ parentExists = TRUE
    /\ results = <<>>
    /\ prompt_list \in BatchPromptLists

InitSave ==
    /\ entry = "save_results_to_json"
    /\ pc = "save"
    /\ csv = NoCsv
    /\ apiKey = Str("key")
    /\ parentExists \in BOOLEAN
    /\ results \in SaveArgs
    /\ prompt_list = <<>>

Init == Idle /\ (InitMain \/ InitGenerate \/ InitBatch \/ InitSave)

fsVars == <<parentExists, file, fileWrites>>
inputVars == <<entry, csv, apiKey, prompt_list>>
loopVars == <<i, messages, pauses>>
callVars == <<inflight, calls, replies, completions>>
batchVars == <<tasks, gathered, loop>>

----------------------------------------------------------------------------
(* main, lines 130-156 *)

\* line 140
Mkdir ==
    /\ pc = "mkdir"
    /\ parentExists' = MkdirParents(parentExists)
    /\ pc' = "load"
    /\ UNCHANGED <<inputVars, file, fileWrites, video_data, loopVars, callVars,
                   results, batchVars, outcome>>

\* line 144
Load ==
    /\ pc = "load"
    /\ video_data' = LoadVideoIdsFromCsv(csv)
    /\ calls' = [k \in 1..Len(video_data') |-> 0]
    /\ replies' = [k \in 1..Len(video_data') |-> None]
    /\ pc' = "client"
    /\ UNCHANGED <<inputVars, fsVars, loopVars, inflight, completions, results,
                   batchVars, outcome>>

\* line 148 with GeminiTsumGenerator.__init__ (gemini.py 14-23), then the
\* start of generate_messages_sequentially (lines 94-95).
NewGenerator ==
    /\ pc = "client"
    /\ IF apiKey = None
       THEN /\ pc' = "raised"
            /\ outcome' = <<Raise(ValueErrorNoApiKey)>>
            /\ UNCHANGED loopVars
       ELSE /\ pc' = "loop"
            /\ i' = 1
            /\ messages' = <<>>
            /\ UNCHANGED <<pauses, outcome>>
    /\ UNCHANGED <<inputVars, fsVars, video_data, callVars, results, batchVars>>

----------------------------------------------------------------------------
(* generate_messages_sequentially, lines 97-127 *)

Total == Len(video_data)

\* The call is started and not awaited: the loop goes on to the next record.
IssueCallNoAwait ==
    /\ pc = "loop"
    /\ i <= Len(video_data)
    /\ inflight' = inflight \cup
           { [record |-> i, contents |-> ToParts(Prompts(video_data[i]))] }
    /\ calls' = [calls EXCEPT ![i] = @ + 1]
    /\ i' = i + 1
    /\ UNCHANGED <<inputVars, fsVars, pc, video_data, messages, pauses, replies,
                   completions, results, batchVars, outcome>>

\* lines 97-114: the next record's prompt is built and generate is awaited.
IssueCall ==
    /\ pc = "loop"
    /\ i <= Total
    /\ inflight' = inflight \cup
           { [record |-> i, contents |-> ToParts(Prompts(video_data[i]))] }
    /\ calls' = [calls EXCEPT ![i] = @ + 1]
    /\ pc' = "await"
    /\ UNCHANGED <<inputVars, fsVars, video_data, loopVars, replies, completions,
                   results, batchVars, outcome>>

\* lines 122-125 and the loop's step: sleep unless this was the last record.
AfterRecord ==
    IF PauseAfter(i, Total)
    THEN pc' = "sleep" /\ i' = i
    ELSE pc' = "loop" /\ i' = i + 1

Completed(r) ==
    /\ inflight' = { c \in inflight : c.record # i }
    /\ replies' = [replies EXCEPT ![i] = <<r>>]
    /\ completions' = Append(completions, i)

\* The results are flushed to the file after each successful record.
CallReturnsAndSaves ==
    /\ pc = "await"
    /\ \E r \in BackendResponses :
         /\ Generate(r).kind = "return"
         /\ Completed(r)
         /\ messages' = Append(messages, Generate(r).value)
    /\ AfterRecord
    /\ file' = <<Combine(video_data, messages')>>
    /\ fileWrites' = fileWrites + 1
    /\ UNCHANGED <<inputVars, parentExists, video_data, calls, pauses, results,
                   batchVars, outcome>>

\* lines 114-115: generate returned.
CallReturns ==
    /\ pc = "await"
    /\ \E r \in BackendResponses :
         /\ Generate(r).kind = "return"
         /\ Completed(r)
         /\ messages' = Append(messages, Generate(r).value)
    /\ AfterRecord
    /\ UNCHANGED <<inputVars, fsVars, video_data, calls, pauses, results,
                   batchVars, outcome>>

\* A failed record leaves no entry in the list.
CallFailsDropsRecord ==
    /\ pc = "await"
    /\ \E r \in BackendResponses :
         /\ Generate(r).kind = "raise"
         /\ Caught(Generate(r).exc)
         /\ Completed(r)
    /\ AfterRecord
    /\ UNCHANGED <<inputVars, fsVars, video_data, messages, calls, pauses,
                   results, batchVars, outcome>>

\* A failed record is generated again.
CallFailsRetries ==
    /\ pc = "await"
    /\ \E r \in BackendResponses :
         /\ Generate(r).kind = "raise"
         /\ Caught(Generate(r).exc)
         /\ Completed(r)
    /\ pc' = "loop"
    /\ UNCHANGED <<inputVars, fsVars, video_data, loopVars, calls, results,
                   batchVars, outcome>>

\* lines 117-120: generate raised and the handler took the exception.
CallFails ==
    /\ pc = "await"
    /\ \E r \in BackendResponses :
         /\ Generate(r).kind = "raise"
         /\ Caught(Generate(r).exc)
         /\ Completed(r)
         /\ messages' = Append(messages, ErrorMsg(Generate(r).exc))
    /\ AfterRecord
    /\ UNCHANGED <<inputVars, fsVars, video_data, calls, pauses, results,
                   batchVars, outcome>>

\* line 117: an exception the handler does not take leaves the loop,
\* asyncio.run and main.
CallAborts ==
    /\ pc = "await"
    /\ \E r \in BackendResponses :
         /\ Generate(r).kind = "raise"
         /\ ~Caught(Generate(r).exc)
         /\ Completed(r)
         /\ outcome' = <<Generate(r)>>
    /\ pc' = "raised"
    /\ UNCHANGED <<inputVars, fsVars, video_data, loopVars, calls, results,
                   batchVars>>

\* line 125
Sleep ==
    /\ pc = "sleep"
    /\ pauses' = Append(pauses, i)
    /\ i' = i + 1
    /\ pc' = "loop"
    /\ UNCHANGED <<inputVars, fsVars, video_data, messages, callVars, results,
                   batchVars, outcome>>

\* line 127 and main, lines 154-181: the loop is over, the messages are
\* returned and combined with the records.
CombineResults ==
    /\ pc = "loop"
    /\ i > Total
    /\ results' = Combine(video_data, messages)
    /\ pc' = "save"
    /\ UNCHANGED <<inputVars, fsVars, video_data, loopVars, callVars, batchVars,
                   outcome>>

\* save_results_to_json, lines 72-75: open(output_json, "w") needs the parent
\* directory; the whole list is dumped.
SaveResultsToJson ==
    /\ pc = "save"
    /\ IF parentExists
       THEN /\ file' = <<results>>
            /\ fileWrites' = fileWrites + 1
            /\ outcome' = <<Return(None)>>
            /\ pc' = "done"
       ELSE /\ outcome' = <<Raise(FileNotFoundError)>>
            /\ pc' = "raised"
            /\ UNCHANGED <<file, fileWrites>>
    /\ UNCHANGED <<inputVars, parentExists, video_data, loopVars, callVars,
                   results, batchVars>>

----------------------------------------------------------------------------
(* GeminiTsumGenerator.generate called on its own, src/llm/gemini.py 25-45 *)

GenerateIssue ==
    /\ pc = "generate"
    /\ inflight' = { [record |-> 1, contents |-> ToParts(prompt_list[1])] }
    /\ calls' = <<1>>
    /\ replies' = <<None>>
    /\ pc' = "generate_await"
    /\ UNCHANGED <<inputVars, fsVars, video_data, loopVars, completions, results,
                   batchVars, outcome>>

GenerateComplete ==
    /\ pc = "generate_await"
    /\ \E r \in BackendResponses :
         /\ replies' = << <<r>> >>
         /\ completions' = <<1>>
         /\ outcome' = <<Generate(r)>>
         /\ pc' = IF Generate(r).kind = "return" THEN "done" ELSE "raised"
    /\ inflight' = {}
    /\ UNCHANGED <<inputVars, fsVars, video_data, loopVars, calls, results,
                   batchVars>>

----------------------------------------------------------------------------
(* GeminiTsumGenerator.batch_generate, src/llm/gemini.py 47-62 *)

(* asyncio.run drives an event loop.  Its queue holds the callbacks that   *)
(* are ready; an iteration waits for I/O (the backend's answers), then runs *)
(* the callbacks that were ready at that moment, in order; callbacks         *)
(* scheduled meanwhile wait for the next iteration.                          *)

Callback(cb, k) == [cb |-> cb, task |-> k]

\* Sequences without repetition over a set of tasks.
Orders(S) ==
    { d \in SeqsUpTo(S, Cardinality(S)) :
        \A m, n \in 1..Len(d) : m # n => d[m] # d[n] }

\* The callback at the head of the queue has run and scheduled "more".
Ran(more) ==
    loop' = [loop EXCEPT !.ready = Tail(@) \o more, !.ntodo = @ - 1]

\* pc is "gather" while _batch_execute waits for gather and "finished" from
\* the moment it has returned or raised until asyncio.run has closed the loop.
Running(cb) ==
    /\ pc \in {"gather", "finished"}
    /\ loop.ntodo > 0
    /\ Head(loop.ready).cb = cb
    /\ loop.ntodo > 0
    /\ Head(loop.ready).cb = cb

\* The task's coroutine has finished with generate's outcome o; the done
\* callback of gather is scheduled.
Finished(k, o) ==
    /\ tasks' = [tasks EXCEPT ![k] = IF o.kind = "return" THEN "done" ELSE "failed"]
    /\ Ran(<<Callback("done", k)>>)

\* lines 58-62: asyncio.run starts _batch_execute, which makes one coroutine
\* per prompt list; gather wraps each in a task, whose first step is
\* scheduled, and _batch_execute waits for gather.  Without prompt lists
\* gather's result is ready at once and the empty list is returned.
BatchStart ==
    /\ pc = "batch"
    /\ calls' = [k \in 1..Len(prompt_list) |-> 0]
    /\ replies' = [k \in 1..Len(prompt_list) |-> None]
    /\ IF prompt_list = <<>>
       THEN /\ outcome' = <<Return(<<>>)>>
            /\ pc' = "done"
            /\ UNCHANGED batchVars
       ELSE /\ tasks' = [k \in 1..Len(prompt_list) |-> "created"]
            /\ gathered' = [slots |-> [k \in 1..Len(prompt_list) |-> None],
                            exc |-> None, outer |-> "pending"]
            /\ loop' = [NoLoop EXCEPT !.ready =
                            [k \in 1..Len(prompt_list) |-> Callback("step", k)]]
            /\ pc' = "gather"
            /\ UNCHANGED outcome
    /\ UNCHANGED <<inputVars, fsVars, video_data, loopVars, inflight, completions,
                   results>>

\* The loop waits for I/O: the backend answers some of the calls in flight,
\* in some order (at least one when nothing else is ready); every answered
\* task is scheduled to resume.
Poll ==
    /\ pc \in {"gather", "finished"}
    /\ loop.ntodo = 0
    /\ ~loop.stopping
    /\ \E d \in Orders({ c.record : c \in inflight }) :
         \E rs \in [1..Len(d) -> BackendResponses] :
           /\ loop.ready # <<>> \/ d # <<>>
           /\ replies' = [k \in 1..Len(replies) |->
                            IF \E n \in 1..Len(d) : d[n] = k
                            THEN <<rs[CHOOSE n \in 1..Len(d) : d[n] = k]>>
                            ELSE replies[k]]
           /\ completions' = completions \o d
           /\ inflight' = { c \in inflight : \A n \in 1..Len(d) : d[n] # c.record }
           /\ tasks' = [k \in 1..Len(tasks) |->
                          IF \E n \in 1..Len(d) : d[n] = k THEN "woken" ELSE tasks[k]]
           /\ loop' = [loop EXCEPT
                         !.ready = @ \o [n \in 1..Len(d) |-> Callback("wake", d[n])],
                         !.ntodo = Len(loop.ready) + Len(d)]
    /\ UNCHANGED <<inputVars, fsVars, pc, video_data, loopVars, calls, results,
                   gathered, outcome>>

\* The first step of a task: generate runs to its await (lines 26-33) and
\* the call is in flight.
TaskIssue ==
    /\ Running("step")
    /\ LET k == Head(loop.ready).task IN
         /\ calls' = [calls EXCEPT ![k] = @ + 1]
         /\ inflight' = inflight \cup
                { [record |-> k, contents |-> ToParts(prompt_list[k])] }
         /\ tasks' = [tasks EXCEPT ![k] = "awaiting"]
    /\ Ran(<<>>)
    /\ UNCHANGED <<inputVars, fsVars, pc, video_data, loopVars, replies,
                   completions, results, gathered, outcome>>

\* The first step of a task when the call completes without suspending:
\* generate runs to its end (lines 26-45) in this step.
TaskRunsThrough ==
    /\ Running("step")
    /\ LET k == Head(loop.ready).task IN
         /\ calls' = [calls EXCEPT ![k] = @ + 1]
         /\ \E r \in BackendResponses :
              /\ replies' = [replies EXCEPT ![k] = <<r>>]
              /\ Finished(k, Generate(r))
         /\ completions' = Append(completions, k)
    /\ UNCHANGED <<inputVars, fsVars, pc, video_data, loopVars, inflight, results,
                   gathered, outcome>>

\* An answered task resumes: generate goes on from its await to its end
\* (lines 42-45).
TaskResumes ==
    /\ Running("wake")
    /\ LET k == Head(loop.ready).task IN Finished(k, Generate(replies[k][1]))
    /\ UNCHANGED <<inputVars, fsVars, pc, video_data, loopVars, callVars, results,
                   gathered, outcome>>

\* gather's callback for a finished task: the first exception completes
\* gather; a result is kept, and the last one completes gather; once gather
\* is complete nothing more is recorded.  Completing gather schedules
\* _batch_execute.
GatherRecords ==
    /\ Running("done")
    /\ LET k == Head(loop.ready).task
           o == Generate(replies[k][1])
           slots == GatherStore(gathered.slots, k, o.value)
       IN IF gathered.outer # "pending"
          THEN /\ UNCHANGED gathered
               /\ Ran(<<>>)
          ELSE IF o.kind = "raise"
          THEN /\ gathered' = [gathered EXCEPT !.exc = <<o.exc>>,
                                               !.outer = "exception"]
               /\ Ran(<<Callback("main", 0)>>)
          ELSE IF \A j \in 1..Len(slots) : slots[j] # None
          THEN /\ gathered' = [gathered EXCEPT !.slots = slots, !.outer = "result"]
               /\ Ran(<<Callback("main", 0)>>)
          ELSE /\ gathered' = [gathered EXCEPT !.slots = slots]
               /\ Ran(<<>>)
    /\ UNCHANGED <<inputVars, fsVars, pc, video_data, loopVars, callVars, results,
                   tasks, outcome>>

\* The main task has finished with outcome o: run_until_complete's callback,
\* which stops the loop, is scheduled.  The callbacks still due in this
\* iteration run first.
MainFinished(o) ==
    /\ loop' = [loop EXCEPT !.ready = Tail(@) \o <<Callback("stop", 0)>>,
                            !.ntodo = @ - 1,
                            !.main = <<o>>]
    /\ pc' = "finished"

\* line 60: every task returned; _batch_execute returns gather's list, in
\* the order of the prompt lists.
GatherReturns ==
    /\ Running("main")
    /\ gathered.outer = "result"
    /\ MainFinished(Return([k \in 1..Len(tasks) |-> gathered.slots[k][1]]))
    /\ UNCHANGED <<inputVars, fsVars, video_data, loopVars, callVars, results,
                   tasks, gathered, outcome>>

\* line 60: the first exception leaves gather and _batch_execute.
GatherRaises ==
    /\ Running("main")
    /\ gathered.outer = "exception"
    /\ MainFinished(Raise(gathered.exc[1]))
    /\ UNCHANGED <<inputVars, fsVars, video_data, loopVars, callVars, results,
                   tasks, gathered, outcome>>

\* line 62: run_until_complete's callback asks the loop to stop; the loop
\* ends after the iteration in which this callback runs.
LoopStops ==
    /\ Running("stop")
    /\ loop' = [loop EXCEPT !.ready = Tail(@), !.ntodo = @ - 1, !.stopping = TRUE]
    /\ UNCHANGED <<inputVars, fsVars, pc, video_data, loopVars, callVars, results,
                   tasks, gathered, outcome>>

\* line 62: the loop has stopped; asyncio.run cancels the tasks that have
\* not finished, their calls with them, closes the loop, and batch_generate
\* returns or raises what _batch_execute did.
RunCloses ==
    /\ pc = "finished"
    /\ loop.stopping
    /\ loop.ntodo = 0
    /\ tasks' = [k \in 1..Len(tasks) |->
                    IF tasks[k] \in {"done", "failed"} THEN tasks[k] ELSE "cancelled"]
    /\ inflight' = {}
    /\ outcome' = loop.main
    /\ pc' = IF loop.main[1].kind = "return" THEN "done" ELSE "raised"
    /\ loop' = NoLoop
    /\ UNCHANGED <<inputVars, fsVars, video_data, loopVars, calls, replies,
                   completions, results, gathered>>

----------------------------------------------------------------------------

Next ==
    \/ Mkdir
    \/ Load
    \/ NewGenerator
    \/ IssueCall
    \/ CallReturns
    \/ CallFails
    \/ CallAborts
    \/ Sleep
    \/ CombineResults
    \/ SaveResultsToJson
    \/ GenerateIssue
    \/ GenerateComplete
    \/ BatchStart
    \/ Poll
    \/ TaskIssue
    \/ TaskRunsThrough
    \/ TaskResumes
    \/ GatherRecords
    \/ GatherReturns
    \/ GatherRaises
    \/ LoopStops
    \/ RunCloses

Spec == Init /\ [][Next]_vars

----------------------------------------------------------------------------
(* Vocabulary of the properties. *)

\* The value a line of the input file gives to a column: None when the file
\* has no such column or the line ends before it.
CellOf(cells, key) ==
    IF \E n \in 1..Len(cells) : n <= Len(csv.fieldnames) /\ csv.fieldnames[n] = key
    THEN Str(cells[CHOOSE n \in 1..Len(cells) : csv.fieldnames[n] = key])
    ELSE None

HasVideoId(cells) == CellOf(cells, "video_id") \notin {None, Str("")}

\* The lines of the input file that identify a video, in file order.
InputRecords == SelectSeq(csv.rows, HasVideoId)

OptionalKeys == {"title", "channel", "parent_category", "fine_category"}

NonEmptyInput(cells, key) == CellOf(cells, key) \notin {None, Str("")}

MainRun == entry = "main"
LoopOver == pc \in {"save", "done"}

Replied(k) == k \in 1..Len(replies) /\ replies[k] # None
CallRaised(k) == Replied(k) /\ replies[k][1].kind = "raise"
ReplyUnparsable(k) ==
    /\ Replied(k)
    /\ replies[k][1].kind = "response"
    /\ replies[k][1].text # None
    /\ replies[k][1].text[1] \notin
          {TextNoStories, TextOneStory, TextTwoStories, TextExtraKeys}
ReplyMissing(k) ==
    /\ Replied(k)
    /\ \/ replies[k][1].kind = "none"
       \/ replies[k][1].kind = "response" /\ replies[k][1].text = None

FailedWithException(k) ==
    \/ CallRaised(k) /\ IsInstance(replies[k][1].exc, "Exception")
    \/ ReplyUnparsable(k)
    \/ ReplyMissing(k)

IsErrorStories(st) ==
    /\ Len(st) = 1
    /\ st[1].title = "Error"
    /\ st[1].message # ""

----------------------------------------------------------------------------
(* C1: once the loop of main is over, generate_messages_sequentially has   *)
(* returned one message per input record and the combined list has one     *)
(* result per input record, the k-th carrying the video_id of the k-th     *)
(* input record, whatever mixture of successes and failures occurred.      *)
C1_OneResultPerRecord ==
    (MainRun /\ LoopOver) =>
        /\ Len(video_data) = Len(InputRecords)
        /\ Len(messages) = Len(InputRecords)
        /\ Len(results) = Len(InputRecords)
        /\ \A k \in 1..Len(results) :
               results[k]["video_id"] = CellOf(InputRecords[k], "video_id")

C1_Witness ==
    /\ MainRun /\ pc = "done"
    /\ Len(InputRecords) = 2
    /\ CellOf(InputRecords[1], "video_id") # CellOf(InputRecords[2], "video_id")
    /\ CallRaised(1)
    /\ messages[2].type = "StoryOutput"

(* C2 as stated: whenever the generation call of a record has raised, with *)
(* any exception type, or returned an unparsable reply, the batch is not   *)
(* aborted, and in the output the record's stories are one "Error" entry   *)
(* with a non-empty message.                                               *)
C2_AnyExceptionIsolated ==
    MainRun =>
        \A k \in 1..Len(replies) :
            (CallRaised(k) \/ ReplyUnparsable(k)) =>
                /\ pc # "raised"
                /\ LoopOver => IsErrorStories(results[k]["stories"])

(* C2 amended: whenever the generation call of a record has raised an      *)
(* exception derived from Exception, or returned an unparsable reply, the  *)
(* batch is not aborted by it, the record's message is an error text, and  *)
(* in the output its stories are one "Error" entry with a non-empty        *)
(* message; a finished loop has processed every record; the batch is       *)
(* aborted only by an exception that is not derived from Exception.        *)
C2_ExceptionIsolated ==
    MainRun =>
        /\ \A k \in 1..Len(replies) :
              FailedWithException(k) =>
                  /\ Len(messages) >= k
                  /\ messages[k].type = "str"
                  /\ (pc = "raised") => (Len(completions) > k)
                  /\ LoopOver => IsErrorStories(results[k]["stories"])
        /\ LoopOver =>
              /\ Len(results) = Len(InputRecords)
              /\ \A k \in 1..Len(InputRecords) : Replied(k)
        /\ (pc = "raised" /\ completions # <<>>) =>
              /\ outcome[1].kind = "raise"
              /\ ~IsInstance(outcome[1].exc, "Exception")

C2_Witness ==
    /\ MainRun /\ pc = "done"
    /\ Len(InputRecords) = 2
    /\ CallRaised(1) /\ replies[1][1].exc.msg = ""
    /\ IsErrorStories(results[1]["stories"])
    /\ messages[2].type = "StoryOutput"
    /\ ~IsErrorStories(results[2]["stories"])

(* C3: generate is invoked at most once for a record, exactly once for a   *)
(* record that has its message, failed or succeeded, and exactly N times   *)
(* in a run whose loop is over.                                            *)
C3_OneCallPerRecord ==
    MainRun =>
        /\ \A k \in 1..Len(calls) :
              /\ calls[k] <= 1
              /\ (Len(messages) >= k) => calls[k] = 1
        /\ LoopOver =>
              /\ Len(calls) = Len(InputRecords)
              /\ SeqSum(calls) = Len(InputRecords)

C3_Witness ==
    /\ MainRun /\ pc = "done"
    /\ Len(InputRecords) = 2
    /\ messages[1].type = "str"
    /\ messages[2].type = "str"
    /\ SeqSum(calls) = 2

(* C4: the pauses are taken after records 1, 2, ... in order, never after  *)
(* the last record; a pause is taken when its record has its message and   *)
(* the next record has not been started, and a record after the first is   *)
(* started only after the pause that precedes it; a finished loop has      *)
(* paused exactly N-1 times for N >= 1 records and never for none.         *)
C4_Pacing ==
    MainRun =>
        /\ \A k \in 1..Len(pauses) :
              /\ pauses[k] = k
              /\ k < Len(video_data)
              /\ Len(messages) >= k
        /\ \A k \in 2..Len(calls) : calls[k] > 0 => Len(pauses) >= k - 1
        /\ pc = "sleep" =>
              /\ i < Len(video_data)
              /\ Len(messages) = i
              /\ Len(pauses) = i - 1
              /\ calls[i + 1] = 0
        /\ LoopOver =>
              Len(pauses) = IF Len(InputRecords) = 0 THEN 0
                            ELSE Len(InputRecords) - 1

C4_Witness ==
    /\ MainRun /\ pc = "done"
    /\ Len(InputRecords) = 2
    /\ pauses = <<1>>
    /\ messages[1].type = "str"

(* C5: at most one generation call is in flight; the call in flight is the *)
(* one of the current record, made with that record's video URL; a call is *)
(* issued only when the calls of all earlier records have completed, and   *)
(* the calls complete in input order.                                      *)
C5_Sequential ==
    MainRun =>
        /\ Cardinality(inflight) <= 1
        /\ \A c \in inflight :
              /\ pc = "await"
              /\ c.record = i
              /\ c.contents[1].file_data.file_uri =
                    YOUTUBE_BASE_URL \o CellOf(InputRecords[i], "video_id")[1]
        /\ \A k \in 1..Len(calls) :
              calls[k] > 0 => \A j \in 1..(k - 1) : Replied(j)
        /\ \A k \in 1..Len(completions) : completions[k] = k

C5_Witness ==
    /\ MainRun /\ pc = "await"
    /\ i = 2
    /\ Cardinality(inflight) = 1
    /\ completions = <<1>>

(* C6: in the output, each optional key of a record is present with the    *)
(* input value when that value is a non-empty string and absent when the   *)
(* value is empty, None or its column missing; no key is null or empty.    *)
(* Failed and succeeded records alike, and the file holds this output.     *)
C6_OptionalFields ==
    (MainRun /\ LoopOver) =>
        /\ \A k \in 1..Len(results) : \A key \in OptionalKeys :
              IF NonEmptyInput(InputRecords[k], key)
              THEN /\ key \in DOMAIN results[k]
                   /\ results[k][key] = CellOf(InputRecords[k], key)
              ELSE key \notin DOMAIN results[k]
        /\ \A k \in 1..Len(results) :
              /\ DOMAIN results[k] \subseteq OptionalKeys \cup {"video_id", "stories"}
              /\ \A key \in DOMAIN results[k] \cap OptionalKeys :
                    results[k][key] \notin {None, Str("")}
        /\ pc = "done" => file = <<results>>

C6_Witness ==
    /\ MainRun /\ pc = "done"
    /\ csv.fieldnames = FullHeader
    /\ Len(results) = 2
    /\ messages[1].type = "str"
    /\ messages[2].type = "StoryOutput"
    /\ InputRecords[1] = <<"abc123", "Cat Video", "", "Travel">>
    /\ DOMAIN results[1] = {"video_id", "stories", "title", "parent_category"}
    /\ InputRecords[2] = <<"def456">>
    /\ DOMAIN results[2] = {"video_id", "stories"}

----------------------------------------------------------------------------
\* The reply texts that conform to the Output Schema, and the stories each
\* of them states.
ValidTexts == {TextNoStories, TextOneStory, TextTwoStories, TextExtraKeys}

StatedStories(text) ==
    IF text = TextNoStories THEN <<>>
    ELSE IF text = TextOneStory THEN << [title |-> "T1", message |-> "M1"] >>
    ELSE IF text = TextTwoStories
         THEN << [title |-> "T1", message |-> "M1"],
                 [title |-> "T2", message |-> "M2"] >>
    ELSE << [title |-> "T6", message |-> "M6"] >>

ReplyUsable(r) ==
    /\ r.kind = "response"
    /\ r.text # None
    /\ r.text[1] \in ValidTexts

(* C7: generate returns exactly when the backend gave a response whose     *)
(* text is present and conforms to the schema, and then returns all the    *)
(* stories of the reply; a null response, a null or empty text and a reply *)
(* that fails validation, wholly or in one story, all raise a ValueError   *)
(* (an Exception), and an exception of the call itself is passed on.       *)
C7_GenerateAllOrNothing ==
    (entry = "generate" /\ pc \in {"done", "raised"}) =>
        /\ outcome[1].kind = "return" <=> ReplyUsable(replies[1][1])
        /\ pc = "done" <=> outcome[1].kind = "return"
        /\ outcome[1].kind = "return" =>
              outcome[1].value =
                  [type |-> "StoryOutput",
                   stories |-> StatedStories(replies[1][1].text[1])]
        /\ (outcome[1].kind = "raise" /\ replies[1][1].kind # "raise") =>
              /\ IsInstance(outcome[1].exc, "ValueError")
              /\ IsInstance(outcome[1].exc, "Exception")
        /\ replies[1][1].kind = "raise" =>
              outcome[1] = Raise(replies[1][1].exc)

C7_Witness ==
    /\ entry = "generate" /\ pc = "raised"
    /\ replies[1][1] = Response(<<TextPartlyValid>>)
    /\ outcome[1].exc.cls = "ValidationError"

\* The exception generate raises for a reply that is not usable.
FailureOf(r) ==
    IF r.kind = "raise" THEN r.exc
    ELSE IF r.kind = "response" /\ r.text # None THEN ValidationError
    ELSE ValueErrorNoResponse

(* C8: batch_generate makes one generate call per element of its list, no  *)
(* more, and has made all of them when it ends.  When it returns, every    *)
(* call has returned and the k-th result is the output for the reply to    *)
(* the k-th element's call, whatever the order of completion; when a call  *)
(* has failed it does not return a list, and what it raises is the         *)
(* exception of a failed call.                                             *)
C8_BatchAligned ==
    entry = "batch_generate" =>
        /\ \A k \in 1..Len(calls) : calls[k] <= 1
        /\ \A c \in inflight :
              c.contents[1].file_data.file_uri = prompt_list[c.record][1].video_url
        /\ pc \in {"done", "raised"} =>
              \A k \in 1..Len(prompt_list) : calls[k] = 1
        /\ pc = "done" =>
              /\ outcome[1].kind = "return"
              /\ Len(outcome[1].value) = Len(prompt_list)
              /\ \A k \in 1..Len(prompt_list) :
                    /\ Replied(k)
                    /\ ReplyUsable(replies[k][1])
                    /\ outcome[1].value[k] =
                          [type |-> "StoryOutput",
                           stories |-> StatedStories(replies[k][1].text[1])]
        /\ (\E k \in 1..Len(tasks) : tasks[k] = "failed") => pc # "done"
        /\ pc = "raised" =>
              /\ outcome[1].kind = "raise"
              /\ \E k \in 1..Len(tasks) :
                    /\ tasks[k] = "failed"
                    /\ ~ReplyUsable(replies[k][1])
                    /\ outcome[1].exc = FailureOf(replies[k][1])

C8_Witness ==
    /\ entry = "batch_generate" /\ pc = "done"
    /\ Len(prompt_list) = 2
    /\ completions = <<2, 1>>
    /\ outcome[1].value[1] # outcome[1].value[2]

(* C9: in a run of main the results file is opened for writing at most     *)
(* once, only by the final save, when every input record has its outcome;  *)
(* a run that is not done, an aborted one included, has written nothing.   *)
C9_SingleFinalWrite ==
    MainRun =>
        /\ fileWrites <= 1
        /\ fileWrites = 0 <=> file = None
        /\ pc # "done" => fileWrites = 0
        /\ fileWrites = 1 =>
              /\ pc = "done"
              /\ Len(messages) = Len(InputRecords)
              /\ \A k \in 1..Len(InputRecords) : Replied(k)
              /\ Len(results) = Len(InputRecords)
              /\ file = <<results>>

C9_Witness ==
    /\ MainRun /\ pc = "raised"
    /\ Len(messages) = 1
    /\ completions = <<1, 2>>
    /\ file = None

(* C10 as stated: a call of save never fails for a missing parent          *)
(* directory; it ends with the directory present and the file written.     *)
C10_SaveCreatesParents ==
    (entry \in {"main", "save_results_to_json"} /\ outcome # None) =>
        /\ outcome[1].kind = "raise" => outcome[1].exc.cls # "FileNotFoundError"
        /\ pc = "done" => (parentExists /\ file = <<results>>)

(* C10 amended: the parent directory is created by main, before the input  *)
(* is loaded, so that the save made by main finds it and writes the file;  *)
(* save_results_to_json itself creates no directory: called with a missing *)
(* parent it raises FileNotFoundError and writes nothing, called with the  *)
(* parent present it writes the file.                                      *)
C10_MainCreatesParents ==
    /\ (MainRun /\ pc # "mkdir") => parentExists
    /\ (MainRun /\ pc = "done") => file = <<results>>
    /\ (MainRun /\ outcome # None /\ outcome[1].kind = "raise") =>
          outcome[1].exc.cls # "FileNotFoundError"
    /\ (entry = "save_results_to_json" /\ pc # "save") =>
          IF parentExists
          THEN pc = "done" /\ file = <<results>> /\ fileWrites = 1
          ELSE /\ pc = "raised"
               /\ outcome = <<Raise(FileNotFoundError)>>
               /\ file = None

C10_Witness ==
    /\ entry = "save_results_to_json" /\ pc = "raised"
    /\ ~parentExists
    /\ results # <<>>
    /\ file = None

====
